---- MODULE Spec2Model ----
(***************************************************************************)
(* A model of jsonprinter.py: the Repo / RepoFetcher / BBLayerSerializer   *)
(* classes, the JSON encoders and the repo_decode object hook, and the two *)
(* command line operations, setup and manifest, acting on a file system.   *)
(*                                                                         *)
(* Python values and JSON document values are tagged records (field t).    *)
(* The text of a JSON file is modelled by the document it holds: the       *)
(* standard json module's own text <-> document conversion is library      *)
(* code; the repository's part (repo_decode, the default methods of the    *)
(* two encoders) is modelled operation by operation.  A text that is not   *)
(* JSON, and the empty text a read at end of file returns, are separate    *)
(* values.                                                                 *)
(***************************************************************************)
EXTENDS Integers, Sequences, FiniteSets, TLC

VARIABLES
    srcExists,   \* os.path.isdir(src_dir)
    subdirs,     \* entries of src_dir: name -> Absent | PlainDir | checkout
    confExists,  \* os.path.isdir(conf_dir)
    bblayers,    \* conf_dir/bblayers.conf: NoFile or a TextFile
    repo_json,   \* the file named by --repos-json in the current run
    cwd,         \* the repository the process's working directory is in
    pc,          \* position of the running operation
    fetcher,     \* the local variable fetcher of setup / manifest
    repos_fd,    \* TRUE once repos_fd.read() has consumed the file
    reads,       \* number of repos_fd.read() calls of the current setup
    idx,         \* index of the member / directory entry being processed
    lidx,        \* index of the layer being written
    listing,     \* result of os.listdir(src_dir) in manifest
    outcomes,    \* per member reached by RepoFetcher.clone: what happened
    destBefore,  \* subdirs as it was when fetcher.clone() was called
    err,         \* the exception that ended the operation, or NoErr
    rt           \* the codec round trip: manifest, decode, encode, decode

sysvars == <<srcExists, subdirs, confExists, bblayers, repo_json, cwd, pc,
             fetcher, repos_fd, reads, idx, lidx, listing, outcomes,
             destBefore, err>>
vars == <<sysvars, rt>>

(***************************** bounds **************************************)
MaxRepos == 2
MaxReads == 4

(************************* Python values ***********************************)
PyNone == [t |-> "None"]
PyStr(s) == [t |-> "str", s |-> s]
PyInt(n) == [t |-> "int", n |-> n]
PyList(a) == [t |-> "list", a |-> a]
PyDict(d) == [t |-> "dict", d |-> d]
Raise(e) == [t |-> "raise", e |-> e]
IsRaise(v) == v.t = "raise"

\* The first exception of a sequence of results, in evaluation order.
FirstRaise(s) ==
    s[CHOOSE i \in 1..Len(s) : IsRaise(s[i]) /\ \A j \in 1..(i-1) : ~IsRaise(s[j])]
AnyRaise(s) == \E i \in 1..Len(s) : IsRaise(s[i])

(***************************** class Repo **********************************)
Repo(name, url, branch, revision, layers) ==
    [t |-> "Repo", name |-> name, url |-> url, branch |-> branch,
     revision |-> revision, layers |-> layers]

\* RepoFetcher.__init__: every element of repos must be a Repo.
\* repos is any Python value; iterating a non-iterable raises TypeError, and
\* so does the first character of a non-empty string (a str, not a Repo).
RepoFetcherInit(base, repos) ==
    CASE repos.t = "list" ->
           IF \A i \in 1..Len(repos.a) : repos.a[i].t = "Repo"
           THEN [t |-> "RepoFetcher", base |-> base, repos |-> repos.a]
           ELSE Raise("TypeError")
      [] repos.t = "str" ->
           IF repos.s = ""
           THEN [t |-> "RepoFetcher", base |-> base, repos |-> <<>>]
           ELSE Raise("TypeError")
      [] OTHER -> Raise("TypeError")

\* RepoFetcher.add_repo
add_repo(f, repo) == [f EXCEPT !.repos = Append(@, repo)]

(************************** JSON documents *********************************)
JNull == [t |-> "null"]
JStr(s) == [t |-> "string", s |-> s]
JNum(n) == [t |-> "number", n |-> n]
JArr(a) == [t |-> "array", a |-> a]
JObj(d) == [t |-> "object", d |-> d]

\* File contents / texts.
NoFile == [t |-> "nofile"]
BadText == [t |-> "badtext"]
EmptyText == [t |-> "emptytext"]
JsonText(j) == [t |-> "json", v |-> j]

\* A text file as the sequence of strings written to it, and fd.write.
TextFile(lines) == [t |-> "file", lines |-> lines]
FdWrite(f, line) == [f EXCEPT !.lines = Append(@, line)]

\* dict.get(key, default)
Get(d, key, default) == IF key \in DOMAIN d THEN d[key] ELSE default

\* repo_decode, the object hook
repo_decode(json_obj) ==
    IF json_obj.t # "dict" THEN Raise("TypeError")
    ELSE IF "name" \notin DOMAIN json_obj.d THEN Raise("KeyError")
    ELSE IF "url" \notin DOMAIN json_obj.d THEN Raise("KeyError")
    ELSE Repo(json_obj.d["name"],
              json_obj.d["url"],
              Get(json_obj.d, "branch", PyStr("master")),
              Get(json_obj.d, "revision", PyStr("HEAD")),
              Get(json_obj.d, "layers", PyList(<<PyStr("./")>>)))

\* JSONDecoder(object_hook=repo_decode) on a document: the hook is applied to
\* every object, innermost first.
RECURSIVE Loads(_)
Loads(j) ==
    CASE j.t = "null" -> PyNone
      [] j.t = "string" -> PyStr(j.s)
      [] j.t = "number" -> PyInt(j.n)
      [] j.t = "array" ->
           LET items == [i \in 1..Len(j.a) |-> Loads(j.a[i])]
           IN IF AnyRaise(items) THEN FirstRaise(items) ELSE PyList(items)
      [] j.t = "object" ->
           LET d == [k \in DOMAIN j.d |-> Loads(j.d[k])]
           IN IF \E k \in DOMAIN d : IsRaise(d[k])
              THEN d[CHOOSE k \in DOMAIN d : IsRaise(d[k])]
              ELSE repo_decode(PyDict(d))

\* JSONDecoder(object_hook=repo_decode).decode(text)
JSONDecode(text) ==
    CASE text.t = "json" -> Loads(text.v)
      [] OTHER -> Raise("ValueError")

\* RepoEncoder.default.  len() of a value without a length raises TypeError,
\* and obj._layers[0] of an empty list or string raises IndexError.
RepoEncoderDefault(obj) ==
    IF obj.t # "Repo" THEN Raise("TypeError")
    ELSE LET L == obj.layers
             withBranch == obj.branch # PyStr("master")
             size == CASE L.t = "list" -> Len(L.a)
                       [] L.t = "str" -> IF L.s = "" THEN 0 ELSE 2
                       [] OTHER -> -1
             first == IF L.t = "list" /\ Len(L.a) > 0 THEN L.a[1] ELSE PyInt(0)
             dict_tmp(withLayers) ==
                 LET keys == {"name", "url"}
                               \cup (IF withBranch THEN {"branch"} ELSE {})
                               \cup (IF withLayers THEN {"layers"} ELSE {})
                 IN PyDict([k \in keys |->
                              CASE k = "name" -> obj.name
                                [] k = "url" -> obj.url
                                [] k = "branch" -> obj.branch
                                [] k = "layers" -> obj.layers])
         IN IF L.t = "None" THEN dict_tmp(TRUE)
            ELSE IF size < 0 THEN Raise("TypeError")
            ELSE IF size > 1 THEN dict_tmp(TRUE)
            ELSE IF size = 0 THEN Raise("IndexError")
            ELSE dict_tmp(first # PyStr("./"))

\* FetcherEncoder.default
FetcherEncoderDefault(obj) ==
    IF obj.t # "RepoFetcher" THEN Raise("TypeError")
    ELSE LET list_tmp == [i \in 1..Len(obj.repos) |-> RepoEncoderDefault(obj.repos[i])]
         IN IF AnyRaise(list_tmp) THEN FirstRaise(list_tmp) ELSE PyList(list_tmp)

\* json.dump(obj, fd, cls=FetcherEncoder): the standard encoding of None,
\* strings, numbers, lists and dicts, and FetcherEncoder.default for anything
\* else.
RECURSIVE Dumps(_)
Dumps(v) ==
    CASE v.t = "None" -> JNull
      [] v.t = "str" -> JStr(v.s)
      [] v.t = "int" -> JNum(v.n)
      [] v.t = "list" ->
           LET items == [i \in 1..Len(v.a) |-> Dumps(v.a[i])]
           IN IF AnyRaise(items) THEN FirstRaise(items) ELSE JArr(items)
      [] v.t = "dict" ->
           LET d == [k \in DOMAIN v.d |-> Dumps(v.d[k])]
           IN IF \E k \in DOMAIN d : IsRaise(d[k])
              THEN d[CHOOSE k \in DOMAIN d : IsRaise(d[k])]
              ELSE JObj(d)
      [] v.t = "raise" -> v
      [] OTHER -> LET o == FetcherEncoderDefault(v)
                  IN IF IsRaise(o) THEN o ELSE Dumps(o)

(***************************** file system *********************************)
DirNames == {"a", "b"}

Absent == [t |-> "absent"]
PlainDir == [t |-> "dir"]
NoUpstream == <<>>
Checkout(rev, branch, upstream, remotes) ==
    [t |-> "checkout", rev |-> rev, branch |-> branch, upstream |-> upstream,
     remotes |-> remotes]
NotARepo == [t |-> "norepo"]

\* What `git clone url dest` leaves at dest when it succeeds: the tip of the
\* remote's default branch, tracking origin.
Cloned(url) ==
    Checkout("tip-" \o url, "master", <<"origin", "master">>,
             [r \in {"origin"} |-> url])

\* A checkout on a detached HEAD: no branch, no upstream.
Detached == Checkout("r9", "HEAD", NoUpstream, [r \in {"origin"} |-> "u"])
\* A checkout of a branch that tracks a remote other than origin.
Forked ==
    Checkout("r7", "dev", <<"fork", "dev">>,
             [r \in {"origin", "fork"} |-> IF r = "fork" THEN "v" ELSE "u"])

NoErr == "none"
Unbound == [t |-> "unbound"]

\* os.path.exists(path + "/" + name)
DestExists(dirs, name) == dirs[name] # Absent

(**************************** manifest files *******************************)
\* The objects manifests are made of: every field present or absent.
EntryA == JObj([k \in {"name", "url", "layers"} |->
                  CASE k = "name" -> JStr("a")
                    [] k = "url" -> JStr("u")
                    [] k = "layers" -> JArr(<<JStr("./"), JStr("x")>>)])
EntryB == JObj([k \in {"name", "url", "branch", "revision", "layers"} |->
                  CASE k = "name" -> JStr("b")
                    [] k = "url" -> JStr("v")
                    [] k = "branch" -> JStr("dev")
                    [] k = "revision" -> JStr("r1")
                    [] k = "layers" -> JNull])
EntryA2 == JObj([k \in {"name", "url"} |->
                  IF k = "name" THEN JStr("a") ELSE JStr("v")])
EntryObjs == {EntryA, EntryB, EntryA2}

NoName == JObj([k \in {"url"} |-> JStr("u")])
NoUrl == JObj([k \in {"name"} |-> JStr("a")])

SeqsUpTo(S, n) == UNION {[1..k -> S] : k \in 0..n}

\* Arrays of objects that carry name and url.
GoodManifests == {JsonText(JArr(a)) : a \in SeqsUpTo(EntryObjs, MaxRepos)}
\* Files setup cannot decode into a list of Repo objects.
BadManifests ==
    {BadText, EmptyText,
     JsonText(EntryA),
     JsonText(JNum(1)),
     JsonText(JNull),
     JsonText(JArr(<<JNum(1)>>)),
     JsonText(JArr(<<EntryA, NoName>>)),
     JsonText(JArr(<<NoUrl>>)),
     JsonText(NoName)}
\* A top-level JSON string: iterable, and empty.
OddManifests == {JsonText(JStr("")), JsonText(JStr("a"))}
ManifestInputs == GoodManifests \cup BadManifests \cup OddManifests \cup {NoFile}

(************************* BBLayerSerializer ********************************)
SrcDir == "source"

\* str.format of a value
PyFormat(v) ==
    CASE v.t = "str" -> v.s
      [] v.t = "None" -> "None"
      [] OTHER -> "<" \o v.t \o ">"

\* The three fd.write calls that open the file.
Prologue ==
    <<"LCONF_VERSION ?= \"5\"\n",
      "BBPATH ?= \"${TOPDIR}\"\n",
      "BBLAYERS ?= \" \\\n">>
Epilogue == "\"\n"

\* LayerLine with the repo name and the layer in each other's place.
LayerLineSwapped(base, name, layer) ==
    "    ${TOPDIR}/" \o base \o "/" \o PyFormat(layer) \o "/" \o PyFormat(name)
        \o " \\\n"

\* "    ${{TOPDIR}}/{0}/{1}/{2} \\\n".format(self._base, repo._name, layer)
LayerLine(base, name, layer) ==
    "    ${TOPDIR}/" \o base \o "/" \o PyFormat(name) \o "/" \o PyFormat(layer)
        \o " \\\n"

\* `if repo._layers is not None`
HasLayers(repo) == repo.layers # PyNone

\* ConfigExists without the check: the file is taken to be absent.
ConfigExistsNever(f) == FALSE

\* os.path.exists(bblayers_file)
ConfigExists(f) == f # NoFile

(******************************** setup ************************************)
Locals ==
    /\ fetcher = Unbound
    /\ repos_fd = FALSE
    /\ reads = 0
    /\ idx = 1
    /\ lidx = 1
    /\ listing = <<>>
    /\ outcomes = <<>>
    /\ destBefore = [n \in DirNames |-> Absent]
    /\ err = NoErr

\* `setup` is run on a manifest file m: open(repo_json, 'r').
StartSetup(m) ==
    /\ pc = "idle"
    /\ repo_json' = m
    /\ IF m = NoFile
       THEN pc' = "s_aborted" /\ err' = "IOError"
       ELSE pc' = "setup_read" /\ err' = NoErr
    /\ UNCHANGED <<srcExists, subdirs, confExists, bblayers, cwd, fetcher,
                   repos_fd, reads, idx, lidx, listing, outcomes, destBefore, rt>>

\* repos_fd.read(): the whole file the first time, the empty text afterwards.
ReadText(consumed, content) == IF consumed THEN EmptyText ELSE content

\* SetupLoopBody with a handler that leaves the loop with a fresh, empty
\* fetcher instead of the one the earlier iteration built.
SetupLoopBodyReset(f, text) ==
    LET repos == JSONDecode(text)
        new == IF IsRaise(repos) THEN repos ELSE RepoFetcherInit(SrcDir, repos)
    IN IF ~IsRaise(new)
       THEN [fetcher |-> new, next |-> "setup_read", err |-> NoErr]
       ELSE IF new.e = "ValueError"
       THEN [fetcher |-> RepoFetcherInit(SrcDir, PyList(<<>>)),
             next |-> "setup_mkdir_src", err |-> NoErr]
       ELSE [fetcher |-> f, next |-> "s_aborted", err |-> new.e]

\* One iteration of the `while True:` loop: the try body, and the handler that
\* breaks on ValueError.  Any other exception leaves setup.
SetupLoopBody(f, text) ==
    LET repos == JSONDecode(text)
        new == IF IsRaise(repos) THEN repos ELSE RepoFetcherInit(SrcDir, repos)
    IN IF ~IsRaise(new)
       THEN [fetcher |-> new, next |-> "setup_read", err |-> NoErr]
       ELSE IF new.e = "ValueError"
       THEN [fetcher |-> f, next |-> "setup_mkdir_src", err |-> NoErr]
       ELSE [fetcher |-> f, next |-> "s_aborted", err |-> new.e]

SetupRead ==
    /\ pc = "setup_read"
    /\ reads < MaxReads
    /\ LET r == SetupLoopBody(fetcher, ReadText(repos_fd, repo_json))
       IN /\ fetcher' = r.fetcher
          /\ pc' = r.next
          /\ err' = r.err
    /\ repos_fd' = TRUE
    /\ reads' = reads + 1
    /\ UNCHANGED <<srcExists, subdirs, confExists, bblayers, repo_json, cwd,
                   idx, lidx, listing, outcomes, destBefore, rt>>

\* `if not os.path.isdir(src_dir): os.mkdir(src_dir)`, then fetcher.clone() is
\* entered: an unbound fetcher raises UnboundLocalError there.
SetupMkdirSrc ==
    /\ pc = "setup_mkdir_src"
    /\ srcExists' = TRUE
    /\ IF fetcher = Unbound
       THEN pc' = "s_aborted" /\ err' = "UnboundLocalError"
       ELSE pc' = "setup_clone" /\ err' = err
    /\ idx' = 1
    /\ destBefore' = subdirs
    /\ UNCHANGED <<subdirs, confExists, bblayers, repo_json, cwd, fetcher,
                   repos_fd, reads, lidx, listing, outcomes, rt>>

\* What the external `git clone` can do.
GitResults == {"ok", "nonzero", "nostart"}

\* Repo.clone(path) for one member, the external command ending as `git`:
\*   skipped  the destination exists, return 1
\*   cloned   subprocess.call returned 0
\*   failed   subprocess.call returned a non-zero status
\*   nostart  subprocess.call raised OSError, which the except clause
\*            (subprocess.CalledProcessError) does not catch
RepoClone(repo, dirs, git) ==
    IF repo.name.t # "str" THEN [result |-> "TypeError", dirs |-> dirs, raised |-> TRUE]
    ELSE IF DestExists(dirs, repo.name.s)
    THEN [result |-> "skipped", dirs |-> dirs, raised |-> FALSE]
    ELSE CASE git = "ok" ->
                [result |-> "cloned",
                 dirs |-> [dirs EXCEPT ![repo.name.s] = Cloned(PyFormat(repo.url))],
                 raised |-> FALSE]
           [] git = "nonzero" -> [result |-> "failed", dirs |-> dirs, raised |-> FALSE]
           [] git = "nostart" -> [result |-> "nostart", dirs |-> dirs, raised |-> TRUE]

\* One iteration of `for repo in self._repos: repo.clone(self._base)`.
SetupClone(git) ==
    /\ pc = "setup_clone"
    /\ idx <= Len(fetcher.repos)
    /\ LET repo == fetcher.repos[idx]
           r == RepoClone(repo, subdirs, git)
       IN /\ subdirs' = r.dirs
          /\ outcomes' = Append(outcomes, [name |-> repo.name, result |-> r.result])
          /\ IF r.raised
             THEN /\ pc' = "s_aborted"
                  /\ err' = IF r.result = "nostart" THEN "OSError" ELSE r.result
                  /\ idx' = idx
             ELSE /\ pc' = pc
                  /\ err' = err
                  /\ idx' = idx + 1
    /\ UNCHANGED <<srcExists, confExists, bblayers, repo_json, cwd, fetcher,
                   repos_fd, reads, lidx, listing, destBefore, rt>>

\* fetcher.clone() returns; `if not os.path.isdir(conf_dir): os.mkdir(conf_dir)`
SetupMkdirConf ==
    /\ pc = "setup_clone"
    /\ idx > Len(fetcher.repos)
    /\ confExists' = TRUE
    /\ pc' = "setup_check"
    /\ UNCHANGED <<srcExists, subdirs, bblayers, repo_json, cwd, fetcher,
                   repos_fd, reads, idx, lidx, listing, outcomes, destBefore,
                   err, rt>>

\* The existence check, then open(bblayers_file, 'w') and the prologue.
SetupOpen ==
    /\ pc = "setup_check"
    /\ IF ConfigExists(bblayers)
       THEN /\ pc' = "s_aborted"
            /\ err' = "ValueError: already exists"
            /\ UNCHANGED bblayers
       ELSE /\ pc' = "write_layers"
            /\ err' = err
            /\ bblayers' = TextFile(Prologue)
    /\ idx' = 1
    /\ lidx' = 1
    /\ UNCHANGED <<srcExists, subdirs, confExists, repo_json, cwd, fetcher,
                   repos_fd, reads, listing, outcomes, destBefore, rt>>

\* One step of the two nested loops of BBLayerSerializer.write: a layer line
\* is written, or the inner loop ends and the next repo is taken.
WriteLayer ==
    /\ pc = "write_layers"
    /\ idx <= Len(fetcher.repos)
    /\ LET repo == fetcher.repos[idx]
       IN IF ~HasLayers(repo)
          THEN /\ idx' = idx + 1 /\ lidx' = 1
               /\ UNCHANGED <<bblayers, pc, err>>
          ELSE IF repo.layers.t # "list"
          THEN /\ pc' = "s_aborted" /\ err' = "TypeError"
               /\ UNCHANGED <<bblayers, idx, lidx>>
          ELSE IF lidx <= Len(repo.layers.a)
          THEN /\ bblayers' = FdWrite(bblayers,
                                LayerLine(fetcher.base, repo.name, repo.layers.a[lidx]))
               /\ lidx' = lidx + 1
               /\ UNCHANGED <<idx, pc, err>>
          ELSE /\ idx' = idx + 1 /\ lidx' = 1
               /\ UNCHANGED <<bblayers, pc, err>>
    /\ UNCHANGED <<srcExists, subdirs, confExists, repo_json, cwd, fetcher,
                   repos_fd, reads, listing, outcomes, destBefore, rt>>

\* The closing fd.write, and the file is closed.
WriteClose ==
    /\ pc = "write_layers"
    /\ idx > Len(fetcher.repos)
    /\ bblayers' = FdWrite(bblayers, Epilogue)
    /\ pc' = "s_done"
    /\ UNCHANGED <<srcExists, subdirs, confExists, repo_json, cwd, fetcher,
                   repos_fd, reads, idx, lidx, listing, outcomes, destBefore,
                   err, rt>>

\* The process ends; the next run starts with fresh locals, on a manifest file
\* of its own.
EndRun ==
    /\ pc \in {"s_done", "s_aborted", "m_done", "m_aborted"}
    /\ pc' = "idle"
    /\ repo_json' = NoFile
    /\ fetcher' = Unbound
    /\ repos_fd' = FALSE
    /\ reads' = 0
    /\ idx' = 1
    /\ lidx' = 1
    /\ listing' = <<>>
    /\ outcomes' = <<>>
    /\ destBefore' = [n \in DirNames |-> Absent]
    /\ err' = NoErr
    /\ UNCHANGED <<srcExists, subdirs, confExists, bblayers, cwd, rt>>

(******************************* manifest ***********************************)
\* The answers of the version-control client in a repository state g.
GitOk(out) == [ok |-> TRUE, out |-> out]
GitFail == [ok |-> FALSE]
\* git rev-parse HEAD
GitRevParseHead(g) == IF g.t = "checkout" THEN GitOk(g.rev) ELSE GitFail
\* git rev-parse --abbrev-ref HEAD
GitBranch(g) == IF g.t = "checkout" THEN GitOk(g.branch) ELSE GitFail
\* git rev-parse --abbrev-ref --symbolic-full-name @{u}
GitUpstream(g) ==
    IF g.t = "checkout" /\ g.upstream # NoUpstream THEN GitOk(g.upstream) ELSE GitFail
\* git config --get remote.<remote>.url
GitRemoteUrl(g, remote) ==
    IF g.t = "checkout" /\ remote \in DOMAIN g.remotes
    THEN GitOk(g.remotes[remote]) ELSE GitFail

\* The repository that answers the queries made for directory entry `item`:
\* subprocess.check_output is called without cwd=, so git runs in the
\* process's working directory, whatever the entry.
QueryDir(item, dirs, wd) == wd

\* os.path.isdir(os.path.join(repo_root, ".git"))
IsGitRepo(entry) == entry.t = "checkout"

\* The body of `if os.path.isdir(git_dir):` for one entry: the Repo that is
\* added, or the CalledProcessError of the first failing check_output.
ScanEntry(item, dirs, wd) ==
    LET g == QueryDir(item, dirs, wd)
        rev == GitRevParseHead(g)
        branch == GitBranch(g)
        upstream == GitUpstream(g)
    IN IF ~rev.ok \/ ~branch.ok \/ ~upstream.ok THEN Raise("CalledProcessError")
       ELSE LET remote == upstream.out[1]
                url == GitRemoteUrl(g, remote)
            IN IF ~url.ok THEN Raise("CalledProcessError")
               ELSE Repo(PyStr(item), PyStr(url.out), PyStr(branch.out),
                         PyStr(rev.out), PyList(<<PyStr("./")>>))

Perms(S) ==
    {f \in [1..Cardinality(S) -> S] : \A i, j \in DOMAIN f : f[i] = f[j] => i = j}

\* `manifest` is run: RepoFetcher(src_dir) and os.listdir(src_dir), which
\* returns the entries in an order of its own.
StartManifest(order) ==
    /\ pc = "idle"
    /\ IF ~srcExists
       THEN /\ pc' = "m_aborted" /\ err' = "OSError"
            /\ UNCHANGED <<fetcher, listing>>
       ELSE /\ order \in Perms({n \in DirNames : subdirs[n] # Absent})
            /\ pc' = "scan" /\ err' = NoErr
            /\ fetcher' = RepoFetcherInit(SrcDir, PyList(<<>>))
            /\ listing' = order
    /\ idx' = 1
    /\ UNCHANGED <<srcExists, subdirs, confExists, bblayers, repo_json, cwd,
                   repos_fd, reads, lidx, outcomes, destBefore, rt>>

\* One iteration of `for item in subdirs:`.
ManifestScan ==
    /\ pc = "scan"
    /\ idx <= Len(listing)
    /\ LET item == listing[idx]
       IN IF IsGitRepo(subdirs[item])
          THEN LET r == ScanEntry(item, subdirs, cwd)
               IN IF IsRaise(r)
                  THEN /\ pc' = "m_aborted" /\ err' = r.e
                       /\ UNCHANGED <<fetcher, idx>>
                  ELSE /\ fetcher' = add_repo(fetcher, r)
                       /\ idx' = idx + 1
                       /\ UNCHANGED <<pc, err>>
          ELSE /\ idx' = idx + 1
               /\ UNCHANGED <<fetcher, pc, err>>
    /\ UNCHANGED <<srcExists, subdirs, confExists, bblayers, repo_json, cwd,
                   repos_fd, reads, lidx, listing, outcomes, destBefore, rt>>

\* open(repo_json, 'w') and json.dump(fetcher, ..., cls=FetcherEncoder)
ManifestWrite ==
    /\ pc = "scan"
    /\ idx > Len(listing)
    /\ LET doc == Dumps(fetcher)
       IN IF IsRaise(doc)
          THEN /\ repo_json' = EmptyText
               /\ pc' = "m_aborted" /\ err' = doc.e
          ELSE /\ repo_json' = JsonText(doc)
               /\ pc' = "m_done" /\ err' = err
    /\ UNCHANGED <<srcExists, subdirs, confExists, bblayers, cwd, fetcher,
                   repos_fd, reads, idx, lidx, listing, outcomes, destBefore, rt>>

RtIdle == [stage |-> "idle"]

\* The file system a run may find: a workspace root with or without entries
\* (plain directories, checkouts in different states), a config directory
\* with or without a bblayers.conf of some other origin, and a working
\* directory that is inside a repository of its own or in none.
Foreign == TextFile(<<"# written by hand\n">>)
InitialEntries == {Absent, PlainDir, Forked, Detached}
WorkingDirs == {NotARepo, Forked, Cloned("u")}
Init ==
    /\ srcExists \in BOOLEAN
    /\ subdirs \in [DirNames -> InitialEntries]
    /\ (~srcExists => \A n \in DirNames : subdirs[n] = Absent)
    /\ confExists \in BOOLEAN
    /\ bblayers \in {NoFile, Foreign}
    /\ (bblayers # NoFile => confExists)
    /\ repo_json = NoFile
    /\ cwd \in WorkingDirs
    /\ pc = "idle"
    /\ Locals
    /\ rt = RtIdle

Next ==
    \/ \E m \in ManifestInputs : StartSetup(m)
    \/ SetupRead
    \/ SetupMkdirSrc
    \/ \E git \in GitResults : SetupClone(git)
    \/ SetupMkdirConf
    \/ SetupOpen
    \/ WriteLayer
    \/ WriteClose
    \/ \E order \in SeqsUpTo(DirNames, Cardinality(DirNames)) : StartManifest(order)
    \/ ManifestScan
    \/ ManifestWrite
    \/ EndRun

Spec == Init /\ [][Next]_vars

(************************* the codec round trip *****************************)
\* Manifest entries with name and url, and every combination of branch,
\* revision and layers absent or present.
NoField == [t |-> "nofield"]
MkObj(f) == JObj([k \in {x \in DOMAIN f : f[x] # NoField} |-> f[k]])
BranchOptions == {NoField, JStr("master"), JStr("dev")}
RevisionOptions == {NoField, JStr("HEAD"), JStr("r1")}
LayersOptions ==
    {NoField, JNull, JArr(<<>>), JArr(<<JStr("./")>>), JArr(<<JStr("x")>>),
     JArr(<<JStr("./"), JStr("x")>>)}
CodecObjs ==
    {MkObj([k \in {"name", "url", "branch", "revision", "layers"} |->
              CASE k = "name" -> JStr(n)
                [] k = "url" -> JStr("u")
                [] k = "branch" -> b
                [] k = "revision" -> r
                [] k = "layers" -> l]) :
       n \in DirNames, b \in BranchOptions, r \in RevisionOptions, l \in LayersOptions}
CodecManifests == {JsonText(JArr(a)) : a \in SeqsUpTo(CodecObjs, MaxRepos)}

\* decode the manifest
CodecDecode ==
    /\ rt.stage = "input"
    /\ rt' = [stage |-> "decoded", m |-> rt.m, first |-> JSONDecode(rt.m)]
    /\ UNCHANGED sysvars

\* json.dumps(RepoFetcher(base, repos), cls=FetcherEncoder)
CodecEncode ==
    /\ rt.stage = "decoded"
    /\ LET enc == Dumps(RepoFetcherInit(SrcDir, rt.first))
       IN rt' = [stage |-> IF IsRaise(enc) THEN "failed" ELSE "encoded",
                 m |-> rt.m, first |-> rt.first, enc |-> enc]
    /\ UNCHANGED sysvars

\* decode what was encoded
CodecDecodeAgain ==
    /\ rt.stage = "encoded"
    /\ rt' = [stage |-> "done", m |-> rt.m, first |-> rt.first, enc |-> rt.enc,
              second |-> JSONDecode(JsonText(rt.enc))]
    /\ UNCHANGED sysvars

InitCodec ==
    /\ srcExists = FALSE
    /\ subdirs = [n \in DirNames |-> Absent]
    /\ confExists = FALSE
    /\ bblayers = NoFile
    /\ repo_json = NoFile
    /\ cwd = NotARepo
    /\ pc = "idle"
    /\ Locals
    /\ rt \in {[stage |-> "input", m |-> m] : m \in CodecManifests}

NextCodec ==
    \/ CodecDecode
    \/ CodecEncode
    \/ CodecDecodeAgain

SpecCodec == InitCodec /\ [][NextCodec]_vars

(******************************** claims ************************************)
\* C1: decoding a manifest, encoding the resulting Repo sequence and decoding
\* that again yields a Repo sequence equal to the first decode's result,
\* field by field and in the same order.
C1_RoundTrip ==
    rt.stage \in {"failed", "done"} =>
        /\ rt.stage = "done"
        /\ ~IsRaise(rt.second)
        /\ Len(rt.second.a) = Len(rt.first.a)
        /\ \A i \in 1..Len(rt.first.a) :
              /\ rt.second.a[i].name = rt.first.a[i].name
              /\ rt.second.a[i].url = rt.first.a[i].url
              /\ rt.second.a[i].branch = rt.first.a[i].branch
              /\ rt.second.a[i].revision = rt.first.a[i].revision
              /\ rt.second.a[i].layers = rt.first.a[i].layers

\* Whether the destination of the i-th member existed when RepoFetcher.clone
\* reached it: it was there when clone was called, or an earlier member of
\* the same name was cloned into it.
ExistedWhenReached(i) ==
    \/ destBefore[outcomes[i].name.s] # Absent
    \/ \E j \in 1..(i-1) :
          outcomes[j].name = outcomes[i].name /\ outcomes[j].result = "cloned"
Attempted == {"cloned", "failed", "nostart"}
SetupEnded == pc \in {"s_done", "s_aborted"}
CloneEntered == fetcher.t = "RepoFetcher" /\ pc \in {"setup_clone", "setup_check", "write_layers", "s_done", "s_aborted"}
ConfigStepReached ==
    pc = "s_done" \/ (pc = "s_aborted" /\ err \in {"ValueError: already exists", "TypeError"})

\* C2: a member whose destination exists when it is reached is not cloned and
\* its destination is left as it was, and clone is still attempted, in member
\* order, for every other member.
C2_CloneIdempotent ==
    CloneEntered =>
        /\ \A i \in 1..Len(outcomes) :
              /\ outcomes[i].name = fetcher.repos[i].name
              /\ ExistedWhenReached(i) <=> outcomes[i].result = "skipped"
              /\ ~ExistedWhenReached(i) => outcomes[i].result \in Attempted
        /\ \A n \in DirNames : destBefore[n] # Absent => subdirs[n] = destBefore[n]
        /\ SetupEnded => Len(outcomes) = Len(fetcher.repos)

\* C3: a failed clone of one member (a non-zero status, or a command that
\* does not start) does not abort: every later member is still reached and
\* setup goes on to its config-writing step.
C3_BestEffortClone ==
    (CloneEntered /\ SetupEnded
       /\ \E i \in 1..Len(outcomes) : outcomes[i].result \in {"failed", "nostart"}) =>
        /\ Len(outcomes) = Len(fetcher.repos)
        /\ ConfigStepReached

\* C4: once bblayers.conf exists, an attempt to write it fails with the
\* already-exists error before the file is opened, and the content changes
\* only while the run that created the file is writing it.
C4_WriteOnce ==
    [][/\ (pc = "setup_check" /\ bblayers # NoFile) =>
              (pc' = "s_aborted" /\ err' = "ValueError: already exists"
                 /\ bblayers' = bblayers)
       /\ (bblayers # NoFile /\ pc # "write_layers") => bblayers' = bblayers]_vars
C4_Witness ==
    /\ pc = "s_aborted"
    /\ err = "ValueError: already exists"
    /\ bblayers.t = "file"
    /\ bblayers # Foreign
    /\ Len(bblayers.lines) > 4

\* C5: the layer lines between the prologue and the closing line are, over
\* the members in insertion order, one ${TOPDIR}/<base>/<name>/<layer> line
\* per entry of the member's layers in list order; a member without layers
\* contributes none.
RECURSIVE LinesOfLayers(_, _, _)
LinesOfLayers(base, name, layers) ==
    IF layers = <<>> THEN <<>>
    ELSE <<"    ${TOPDIR}/" \o base \o "/" \o name \o "/" \o Head(layers).s \o " \\\n">>
           \o LinesOfLayers(base, name, Tail(layers))
RECURSIVE LinesOfMembers(_, _)
LinesOfMembers(base, members) ==
    IF members = <<>> THEN <<>>
    ELSE (IF Head(members).layers = PyNone THEN <<>>
          ELSE LinesOfLayers(base, Head(members).name.s, Head(members).layers.a))
           \o LinesOfMembers(base, Tail(members))
C5_LayerLines ==
    pc = "s_done" =>
        /\ Len(bblayers.lines) >= 4
        /\ SubSeq(bblayers.lines, 1, 3) = Prologue
        /\ bblayers.lines[Len(bblayers.lines)] = Epilogue
        /\ SubSeq(bblayers.lines, 4, Len(bblayers.lines) - 1)
             = LinesOfMembers(SrcDir, fetcher.repos)
C5_Witness ==
    /\ pc = "s_done"
    /\ Len(fetcher.repos) = 2
    /\ fetcher.repos[1].layers = PyNone
    /\ fetcher.repos[2].layers = PyList(<<PyStr("./"), PyStr("x")>>)
    /\ Len(bblayers.lines) = 6

\* C6: every Repo the manifest operation adds for checkout directory D has
\* name D and the revision, branch and upstream-remote URL of checkout D.
C6_ScanDescribesCheckout ==
    (pc \in {"scan", "m_done", "m_aborted"} /\ fetcher.t = "RepoFetcher") =>
        \A i \in 1..Len(fetcher.repos) :
            LET r == fetcher.repos[i]
                d == subdirs[r.name.s]
            IN /\ d.t = "checkout"
               /\ r.revision = PyStr(d.rev)
               /\ r.branch = PyStr(d.branch)
               /\ d.upstream # NoUpstream
               /\ r.url = PyStr(d.remotes[d.upstream[1]])

\* C7: a failing version-control query excludes only the checkout it was
\* made for: the scan goes on and the manifest is written, with one entry for
\* every checkout whose queries all succeeded.
ScannedOk(n) == IsGitRepo(subdirs[n]) /\ ~IsRaise(ScanEntry(n, subdirs, cwd))
C7_ScanIsolation ==
    (pc \in {"m_done", "m_aborted"} /\ srcExists) =>
        /\ pc = "m_done"
        /\ repo_json.t = "json"
        /\ LET want == SelectSeq(listing, ScannedOk)
           IN /\ Len(repo_json.v.a) = Len(want)
              /\ \A i \in 1..Len(want) : repo_json.v.a[i].d["name"] = JStr(want[i])

\* C8: the names of the members of a RepoFetcher are pairwise distinct.
C8_UniqueNames ==
    fetcher.t = "RepoFetcher" =>
        \A i, j \in 1..Len(fetcher.repos) :
            fetcher.repos[i].name = fetcher.repos[j].name => i = j

\* C9: a manifest file that cannot be decoded aborts setup at the decode
\* step: no later step runs, so the workspace root, the checkouts, the config
\* directory and the config file stay as they were.
Undecodable == BadManifests \cup OddManifests
C9_BadManifestAborts ==
    [][(repo_json \in Undecodable /\ pc # "idle") =>
          /\ pc' \in {"s_aborted", "idle"}
          /\ UNCHANGED <<srcExists, subdirs, confExists, bblayers>>]_vars

\* C10: the read loop of setup ends after at most two reads, and for a valid
\* manifest the fetcher used afterwards holds the Repos of the first read, in
\* array order.
AfterLoop == {"setup_mkdir_src", "setup_clone", "setup_check", "write_layers", "s_done"}
C10_ReadLoop ==
    /\ reads <= 2
    /\ pc = "setup_read" => reads <= 1
    /\ (pc \in AfterLoop /\ repo_json \in GoodManifests) =>
          /\ fetcher.t = "RepoFetcher"
          /\ Len(fetcher.repos) = Len(repo_json.v.a)
          /\ \A i \in 1..Len(fetcher.repos) :
                /\ fetcher.repos[i].name.s = repo_json.v.a[i].d["name"].s
                /\ fetcher.repos[i].url.s = repo_json.v.a[i].d["url"].s
                /\ fetcher.repos[i] = Loads(repo_json.v.a[i])
C10_Witness ==
    /\ pc = "setup_clone"
    /\ reads = 2
    /\ Len(fetcher.repos) = 2
    /\ fetcher.repos[1].name = PyStr("b")
    /\ fetcher.repos[2].name = PyStr("a")

====
